---- MODULE Spec2Model ----
(***************************************************************************)
(* keepassx_backup_tool: one-shot synchronisation of a local .kdbx file to *)
(* the Drive folder automatic_backups.  The model follows main() and the   *)
(* credential helpers of src/keepassx_backup_tool.go statement by          *)
(* statement.  A behaviour is a sequence of process runs: each run walks   *)
(* main() from its first line to "done" (normal return) or "fatal"         *)
(* (log.Fatalf, i.e. os.Exit(1): deferred calls are NOT run).  What        *)
(* survives from one run to the next is what lives outside the process:    *)
(* the remote store and the token cache on disk.                           *)
(*                                                                         *)
(* External collaborators are modelled by their contracts:                 *)
(*  - Drive: an append-only sequence of items; Files.List returns the      *)
(*    items matching the query in the store's order; Files.Create appends  *)
(*    an item whose md5Checksum is the MD5 of the uploaded bytes;          *)
(*    Files.Update replaces the content of the item with the given id.     *)
(*    Every call may fail, and a failed call changes nothing.              *)
(*  - the local file: a byte sequence read through a handle with a read    *)
(*    offset; a handle on a regular file can be rewound, a handle on a     *)
(*    pipe/FIFO cannot (Seek returns an error and the offset stays).       *)
(***************************************************************************)
EXTENDS Integers, Sequences, FiniteSets, TLC

\* ------------------------------------------------------------------ bounds
MaxRuns == 2          \* process runs in one behaviour
MaxInitFolders == 2   \* automatic_backups folders already on Drive at the start
MaxInitFiles == 2     \* files already under those folders at the start

\* ------------------------------------------------------- fixed vocabulary
\* os.Args of a well-formed invocation, and one with an argument missing
GoodArgs == <<"tool", <<"home", "u", "db.kdbx">>, <<"home", "u", "secret.json">> >>
ShortArgs == <<"tool", <<"home", "u", "db.kdbx">> >>
ArgVectors == {GoodArgs, ShortArgs}

\* contents the local file can have (bytes), the empty file included
LocalContents == { <<>>, <<97>>, <<98>> }

BackupFolderName == "automatic_backups"
FolderMime == "application/vnd.google-apps.folder"
FileMime == "application/octet-stream"
EmptyMd5 == "d41d8cd98f00b204e9800998ecf8427e"

\* names of files that may already be under a backup folder
InitFileNames == <<"db.kdbx", "notes.kdbx">>

\* ---------------------------------------------------------- pure functions
\* hex.EncodeToString(md5.Sum(bytes)): the true digests of the byte strings
\* the model can hash or upload ("", "a", "b", "ab")
Md5Hex(bytes) ==
  CASE bytes = <<>> -> "d41d8cd98f00b204e9800998ecf8427e"
    [] bytes = <<97>> -> "0cc175b9c0f1b6a831c399e269772661"
    [] bytes = <<98>> -> "92eb5ffee6ae2fec3ad71c777531578f"
    [] bytes = <<97, 98>> -> "187ef4436122d1cc2f40dc2b92f0eba0"

\* filepath.Base: the last element of the path
Base(path) == path[Len(path)]

\* what a reader positioned at offset still yields: the bytes after offset
ReadFrom(bytes, offset) == SubSeq(bytes, offset + 1, Len(bytes))

\* json.NewEncoder(f).Encode(token) / json.NewDecoder(f).Decode(t)
EncodeToken(token) == <<"{", token.AccessToken, token.RefreshToken, "}">>
Decodes(bytes) == Len(bytes) = 4 /\ bytes[1] = "{" /\ bytes[4] = "}"
DecodeToken(bytes) == [AccessToken |-> bytes[2], RefreshToken |-> bytes[3]]
\* what is on disk when os.Create truncated the file and the write failed
Truncated == <<>>

WebToken == [AccessToken |-> "at", RefreshToken |-> "rt"]
NoToken == [AccessToken |-> "", RefreshToken |-> ""]

\* ------------------------------------------------------------------ state
VARIABLES
  remote,          \* Drive: sequence of items; an item's id is its position
  cacheDir,        \* ~/.credentials/keepassx_backup exists
  cacheFile,       \* the token cache file: [exists, bytes]
  args,            \* os.Args of the current run
  localContent,    \* bytes of the file at os.Args[1] during the current run
  localSeekable,   \* TRUE: regular file; FALSE: pipe/FIFO (Seek fails)
  pc,              \* position of the current run in main()
  tok,             \* getClient: tok
  r,               \* main: r.Files of the last Files.List
  backupsFolderId, \* main: backupsFolderId (0: not yet set)
  ringFile,        \* main: ringFile handle [state, offset]
  ringFileHash,    \* main: ringFileHash ("" : not yet computed)
  runs,            \* number of runs started so far
  obs,             \* what the current run has done so far (observer)
  prev,            \* what the previous run did (observer)
  tot,             \* totals over all runs (observer)
  init0            \* facts about the store the first run started from (observer)

vars == <<remote, cacheDir, cacheFile, args, localContent, localSeekable, pc, tok, r,
          backupsFolderId, ringFile, ringFileHash, runs, obs, prev, tot, init0>>

Root == 0

\* ------------------------------------------------------------ Drive queries
\* "mimeType = '...folder' and name = 'automatic_backups' and 'root' in parents"
IsBackupFolder(item) ==
  item.mime = FolderMime /\ item.name = BackupFolderName /\ item.parent = Root

\* "name = '%s' and '%s' in parents"
IsNamedIn(item, name, folderId) == item.name = name /\ item.parent = folderId

\* Files.List().Q(query).Do(): the matching items, in the store's order
ListFolderItems(store) == SelectSeq(store, IsBackupFolder)
ListFileItems(store, name, folderId) ==
  SelectSeq(store, LAMBDA item : IsNamedIn(item, name, folderId))

NewId(store) == Len(store) + 1

\* Files.Create(&drive.File{Name: "automatic_backups", MimeType: folder}).Do():
\* no Parents given, so Drive puts the folder in the root
FolderItem(store) ==
  [id |-> NewId(store), mime |-> FolderMime, name |-> BackupFolderName,
   parent |-> Root, md5 |-> ""]

\* Files.Create(&drive.File{Name, Parents}).Media(reader).Do(): Drive stores the
\* bytes the reader yields and records their MD5
FileItem(store, name, folderId, uploaded) ==
  [id |-> NewId(store), mime |-> FileMime, name |-> name, parent |-> folderId,
   md5 |-> Md5Hex(uploaded)]

\* Files.Update(id, &drive.File{Name}).Media(reader).Do()
UpdatedStore(store, id, name, uploaded) ==
  [store EXCEPT ![id] = [@ EXCEPT !.name = name, !.md5 = Md5Hex(uploaded)]]

\* number of items of that name under that folder
NumNamedIn(store, name, folderId) == Len(ListFileItems(store, name, folderId))
NumFolders(store) == Len(ListFolderItems(store))

\* ---------------------------------------------------------- initial states
InitFolders(n) == [i \in 1..n |-> [id |-> i, mime |-> FolderMime,
                                   name |-> BackupFolderName, parent |-> Root, md5 |-> ""]]

\* the files a store can start with: m files, each with a name and a folder,
\* given folder by folder (two files of one name under one folder are duplicates)
InitFileSeqs(n, m) ==
  { f \in [1..m -> (1..Len(InitFileNames)) \X (1..n)] :
      \A i \in 1..m, j \in 1..m :
        i < j => f[i][2] * Len(InitFileNames) + f[i][1]
                   <= f[j][2] * Len(InitFileNames) + f[j][1] }

\* the stores a first run can meet: 0..MaxInitFolders backup folders, then
\* 0..MaxInitFiles files, each under one of the folders
InitStores ==
  { InitFolders(n) \o [i \in 1..m |-> [id |-> n + i, mime |-> FileMime,
                                        name |-> InitFileNames[f[i][1]],
                                        parent |-> f[i][2],
                                        md5 |-> Md5Hex(<<97>>)]] :
      <<n, m, f>> \in
        UNION { UNION { { <<n, m, f>> : f \in InitFileSeqs(n, m) } :
                        m \in (IF n = 0 THEN {0} ELSE 0..MaxInitFiles) } :
                n \in 0..MaxInitFolders } }

NilFile == [state |-> "nil", offset |-> 0]

FreshObs(store) ==
  [folderCreates |-> 0, fileCreates |-> 0, fileUpdates |-> 0, noops |-> 0,
   fileId |-> 0, err |-> "", prompted |-> FALSE, cacheWritten |-> FALSE,
   cacheReadOk |-> FALSE, cacheFail |-> FALSE, clientReturned |-> FALSE,
   remoteCalls |-> 0, folderHits |-> -1, foldersAtStart |-> NumFolders(store),
   opened |-> FALSE]

NoPrev == [outcome |-> "none", content |-> <<>>, fileCreates |-> 0, fileUpdates |-> 0,
           noops |-> 0, fileId |-> 0, savedOk |-> FALSE]

RingName == Base(GoodArgs[2])

FirstFolderId(store) ==
  IF NumFolders(store) = 0 THEN 0 ELSE ListFolderItems(store)[1].id

Init ==
  /\ remote \in InitStores
  /\ cacheDir \in BOOLEAN
  /\ cacheFile \in { [exists |-> FALSE, bytes |-> <<>>] } \cup
                   ( IF cacheDir
                     THEN { [exists |-> TRUE, bytes |-> EncodeToken(WebToken)],
                            [exists |-> TRUE, bytes |-> Truncated] }
                     ELSE {} )
  /\ args \in ArgVectors
  /\ localContent \in LocalContents
  /\ localSeekable \in BOOLEAN
  /\ pc = "main"
  /\ tok = NoToken
  /\ r = <<>>
  /\ backupsFolderId = 0
  /\ ringFile = NilFile
  /\ ringFileHash = ""
  /\ runs = 1
  /\ obs = FreshObs(remote)
  /\ prev = NoPrev
  /\ tot = [folderCreates |-> 0, fileCreates |-> 0, allDone |-> TRUE]
  /\ init0 = [folders |-> NumFolders(remote),
              filesInFirst |-> NumNamedIn(remote, RingName, FirstFolderId(remote)),
              maxNamed |-> IF NumFolders(remote) = 0 THEN 0
                           ELSE LET S == { NumNamedIn(remote, RingName, i) :
                                           i \in 1..NumFolders(remote) }
                                IN CHOOSE x \in S : \A y \in S : y <= x]

\* ------------------------------------------------------------ the process
\* log.Fatalf: the message is logged and os.Exit(1) ends the process at once;
\* deferred calls do not run
Fatal(step) ==
  /\ pc' = "fatal"
  /\ obs' = [obs EXCEPT !.err = step]

\* the login taken whatever the cache read returned
NeedsWebLogin_Always(readErr) == TRUE

\* line 32: the interactive login is taken when the cache could not be read
NeedsWebLogin(readErr) == readErr

\* the test written with the wrong bound
FolderFound_MoreThanOne(files) == Len(files) > 1

\* line 138: a folder was found
FolderFound(files) == Len(files) > 0

\* the digest compared with the empty string instead of the digest of it
IsEmptyHash_EmptyString(hash) == hash = ""

\* line 172: the digest is that of the empty input
IsEmptyHash(hash) == hash = EmptyMd5

\* the test written with the wrong bound
FileFound_MoreThanOne(files) == Len(files) > 1

\* line 185: a file of that name was found
FileFound(files) == Len(files) > 0

\* the comparison inverted
HasChanged_Inverted(md5Checksum, hash) == md5Checksum = hash

\* line 187: the remote copy differs from the local file
HasChanged(md5Checksum, hash) == md5Checksum # hash

\* ringFile.Seek(0,0): the new offset; on a handle that cannot seek the call
\* returns an error and the offset stays where it was
SeekStart(offset, seekable) == IF seekable THEN 0 ELSE offset

\* lines 97-119: argument count, client secret file, OAuth config
MainStart ==
  /\ pc = "main"
  /\ \/ /\ Len(args) # 3
        /\ Fatal("args")
     \/ /\ Len(args) = 3
        /\ \E readOk \in BOOLEAN, parseOk \in BOOLEAN :
             IF ~readOk THEN Fatal("secret-read")
             ELSE IF ~parseOk THEN Fatal("secret-parse")
             ELSE pc' = "tokenCacheFile" /\ UNCHANGED obs
  /\ UNCHANGED <<remote, cacheDir, cacheFile, args, localContent, localSeekable, tok, r,
                 backupsFolderId, ringFile, ringFileHash, runs, prev, tot, init0>>

\* lines 27-30 and 60-69: user.Current, os.MkdirAll (its error is dropped)
TokenCacheFile ==
  /\ pc = "tokenCacheFile"
  /\ \E userOk \in BOOLEAN, mkdirOk \in BOOLEAN :
       IF ~userOk
       THEN Fatal("cache-path") /\ UNCHANGED cacheDir
       ELSE /\ pc' = "tokenFromFile"
            /\ cacheDir' = (cacheDir \/ mkdirOk)
            /\ obs' = [obs EXCEPT !.cacheFail = ~(cacheDir \/ mkdirOk)]
  /\ UNCHANGED <<remote, cacheFile, args, localContent, localSeekable, tok, r,
                 backupsFolderId, ringFile, ringFileHash, runs, prev, tot, init0>>

\* lines 31-35 and 73-82: os.Open and json Decode of the cache file
TokenFromFile ==
  /\ pc = "tokenFromFile"
  /\ LET readErr == ~(cacheDir /\ cacheFile.exists /\ Decodes(cacheFile.bytes))
     IN IF NeedsWebLogin(readErr)
        THEN /\ pc' = "getTokenFromWeb"
             /\ obs' = [obs EXCEPT !.cacheReadOk = ~readErr]
             /\ UNCHANGED tok
        ELSE /\ pc' = "newClient"
             /\ tok' = IF readErr THEN NoToken ELSE DecodeToken(cacheFile.bytes)
             /\ obs' = [obs EXCEPT !.cacheReadOk = ~readErr]
  /\ UNCHANGED <<remote, cacheDir, cacheFile, args, localContent, localSeekable, r,
                 backupsFolderId, ringFile, ringFileHash, runs, prev, tot, init0>>

\* lines 41-56: print the URL, read the code, exchange it
GetTokenFromWeb ==
  /\ pc = "getTokenFromWeb"
  /\ \E scanOk \in BOOLEAN, exchangeOk \in BOOLEAN :
       IF ~scanOk
       THEN /\ pc' = "fatal"
            /\ obs' = [obs EXCEPT !.prompted = TRUE, !.err = "scan"]
            /\ UNCHANGED tok
       ELSE IF ~exchangeOk
       THEN /\ pc' = "fatal"
            /\ obs' = [obs EXCEPT !.prompted = TRUE, !.err = "exchange"]
            /\ UNCHANGED tok
       ELSE /\ pc' = "saveToken"
            /\ tok' = WebToken
            /\ obs' = [obs EXCEPT !.prompted = TRUE]
  /\ UNCHANGED <<remote, cacheDir, cacheFile, args, localContent, localSeekable, r,
                 backupsFolderId, ringFile, ringFileHash, runs, prev, tot, init0>>

\* lines 86-94: os.Create (fatal on error), Encode (its error is dropped)
SaveToken ==
  /\ pc = "saveToken"
  /\ \E createOk \in BOOLEAN, writeOk \in BOOLEAN :
       IF ~(cacheDir /\ createOk)
       THEN /\ pc' = "fatal"
            /\ obs' = [obs EXCEPT !.cacheFail = TRUE, !.err = "cache-create"]
            /\ UNCHANGED cacheFile
       ELSE /\ pc' = "newClient"
            /\ cacheFile' = [exists |-> TRUE,
                             bytes |-> IF writeOk THEN EncodeToken(tok) ELSE Truncated]
            /\ obs' = [obs EXCEPT !.cacheWritten = TRUE,
                                  !.cacheFail = @ \/ ~writeOk]
  /\ UNCHANGED <<remote, cacheDir, args, localContent, localSeekable, tok, r,
                 backupsFolderId, ringFile, ringFileHash, runs, prev, tot, init0>>

\* lines 36 and 120-125: config.Client, drive.New
NewClient ==
  /\ pc = "newClient"
  /\ \E ok \in BOOLEAN :
       IF ok
       THEN pc' = "listFolders" /\ obs' = [obs EXCEPT !.clientReturned = TRUE]
       ELSE pc' = "fatal" /\ obs' = [obs EXCEPT !.clientReturned = TRUE, !.err = "drive-new"]
  /\ UNCHANGED <<remote, cacheDir, cacheFile, args, localContent, localSeekable, tok, r,
                 backupsFolderId, ringFile, ringFileHash, runs, prev, tot, init0>>

\* lines 127-132: list the automatic_backups folders under root
ListFolders ==
  /\ pc = "listFolders"
  /\ \E ok \in BOOLEAN :
       IF ok
       THEN /\ pc' = "resolveFolder"
            /\ r' = ListFolderItems(remote)
            /\ obs' = [obs EXCEPT !.remoteCalls = @ + 1,
                                  !.folderHits = Len(ListFolderItems(remote))]
       ELSE /\ pc' = "fatal"
            /\ obs' = [obs EXCEPT !.remoteCalls = @ + 1, !.err = "folder-list"]
            /\ UNCHANGED r
  /\ UNCHANGED <<remote, cacheDir, cacheFile, args, localContent, localSeekable, tok,
                 backupsFolderId, ringFile, ringFileHash, runs, prev, tot, init0>>

\* lines 134-151: use the first folder found, or create the folder
ResolveFolder ==
  /\ pc = "resolveFolder"
  /\ IF FolderFound(r)
     THEN /\ backupsFolderId' = r[1].id
          /\ pc' = "openFile"
          /\ UNCHANGED <<remote, obs, tot>>
     ELSE \E ok \in BOOLEAN :
            IF ok
            THEN /\ remote' = Append(remote, FolderItem(remote))
                 /\ backupsFolderId' = NewId(remote)
                 /\ pc' = "openFile"
                 /\ obs' = [obs EXCEPT !.remoteCalls = @ + 1, !.folderCreates = @ + 1]
                 /\ tot' = [tot EXCEPT !.folderCreates = @ + 1]
            ELSE /\ pc' = "fatal"
                 /\ obs' = [obs EXCEPT !.remoteCalls = @ + 1, !.err = "folder-create"]
                 /\ UNCHANGED <<remote, backupsFolderId, tot>>
  /\ UNCHANGED <<cacheDir, cacheFile, args, localContent, localSeekable, tok, r,
                 ringFile, ringFileHash, runs, prev, init0>>

\* lines 153-158: os.Open, defer ringFile.Close()
OpenFile ==
  /\ pc = "openFile"
  /\ \E ok \in BOOLEAN :
       IF ok
       THEN /\ ringFile' = [state |-> "open", offset |-> 0]
            /\ pc' = "calcHash"
            /\ obs' = [obs EXCEPT !.opened = TRUE]
       ELSE /\ Fatal("open")
            /\ UNCHANGED ringFile
  /\ UNCHANGED <<remote, cacheDir, cacheFile, args, localContent, localSeekable, tok, r,
                 backupsFolderId, ringFileHash, runs, prev, tot, init0>>

\* lines 160-168: io.Copy(hash, ringFile), hex digest
CalcHash ==
  /\ pc = "calcHash"
  /\ \E ok \in BOOLEAN :
       IF ok
       THEN /\ ringFileHash' = Md5Hex(ReadFrom(localContent, ringFile.offset))
            /\ ringFile' = [ringFile EXCEPT !.offset = Len(localContent)]
            /\ pc' = "rewind"
            /\ UNCHANGED obs
       ELSE /\ Fatal("hash-read")
            /\ UNCHANGED <<ringFile, ringFileHash>>
  /\ UNCHANGED <<remote, cacheDir, cacheFile, args, localContent, localSeekable, tok, r,
                 backupsFolderId, runs, prev, tot, init0>>

\* lines 169-174: ringFile.Seek(0,0) (its error is dropped), empty-file check
Rewind ==
  /\ pc = "rewind"
  /\ ringFile' = [ringFile EXCEPT !.offset = SeekStart(ringFile.offset, localSeekable)]
  /\ IF IsEmptyHash(ringFileHash)
     THEN Fatal("empty")
     ELSE /\ pc' = "listFiles"
          /\ obs' = [obs EXCEPT !.err = IF localSeekable THEN @ ELSE "seek"]
  /\ UNCHANGED <<remote, cacheDir, cacheFile, args, localContent, localSeekable, tok, r,
                 backupsFolderId, ringFileHash, runs, prev, tot, init0>>

\* lines 176-181: list the files of that name under the backup folder
ListFiles ==
  /\ pc = "listFiles"
  /\ \E ok \in BOOLEAN :
       IF ok
       THEN /\ pc' = "syncFile"
            /\ r' = ListFileItems(remote, Base(args[2]), backupsFolderId)
            /\ obs' = [obs EXCEPT !.remoteCalls = @ + 1]
       ELSE /\ pc' = "fatal"
            /\ obs' = [obs EXCEPT !.remoteCalls = @ + 1, !.err = "file-list"]
            /\ UNCHANGED r
  /\ UNCHANGED <<remote, cacheDir, cacheFile, args, localContent, localSeekable, tok,
                 backupsFolderId, ringFile, ringFileHash, runs, prev, tot, init0>>

\* lines 183-214: update the first file found if its checksum differs, leave
\* it if equal, create the file if none was found
SyncFile ==
  /\ pc = "syncFile"
  /\ LET uploaded == ReadFrom(localContent, ringFile.offset)
         sent == [ringFile EXCEPT !.offset = Len(localContent)]
     IN IF FileFound(r)
        THEN IF HasChanged(r[1].md5, ringFileHash)
             THEN \E ok \in BOOLEAN :
                    IF ok
                    THEN /\ remote' = UpdatedStore(remote, r[1].id, Base(args[2]), uploaded)
                         /\ ringFile' = sent
                         /\ pc' = "end"
                         /\ obs' = [obs EXCEPT !.remoteCalls = @ + 1, !.fileUpdates = @ + 1,
                                               !.fileId = r[1].id]
                         /\ UNCHANGED tot
                    ELSE /\ pc' = "fatal"
                         /\ obs' = [obs EXCEPT !.remoteCalls = @ + 1, !.err = "file-update"]
                         /\ UNCHANGED <<remote, ringFile, tot>>
             ELSE /\ pc' = "end"
                  /\ obs' = [obs EXCEPT !.noops = @ + 1, !.fileId = r[1].id]
                  /\ UNCHANGED <<remote, ringFile, tot>>
        ELSE \E ok \in BOOLEAN :
               IF ok
               THEN /\ remote' = Append(remote, FileItem(remote, Base(args[2]),
                                                        backupsFolderId, uploaded))
                    /\ ringFile' = sent
                    /\ pc' = "end"
                    /\ obs' = [obs EXCEPT !.remoteCalls = @ + 1, !.fileCreates = @ + 1,
                                          !.fileId = NewId(remote)]
                    /\ tot' = [tot EXCEPT !.fileCreates = @ + 1]
               ELSE /\ pc' = "fatal"
                    /\ obs' = [obs EXCEPT !.remoteCalls = @ + 1, !.err = "file-create"]
                    /\ UNCHANGED <<remote, ringFile, tot>>
  /\ UNCHANGED <<cacheDir, cacheFile, args, localContent, localSeekable, tok, r,
                 backupsFolderId, ringFileHash, runs, prev, init0>>

\* lines 216-218: main returns; the deferred ringFile.Close() runs
Finish ==
  /\ pc = "end"
  /\ pc' = "done"
  /\ ringFile' = [ringFile EXCEPT !.state = "closed"]
  /\ UNCHANGED <<remote, cacheDir, cacheFile, args, localContent, localSeekable, tok, r,
                 backupsFolderId, ringFileHash, runs, obs, prev, tot, init0>>

\* the operator starts the tool again: a new process, with its own arguments
\* and whatever the local file holds by then
NextRun ==
  /\ pc \in {"done", "fatal"}
  /\ runs < MaxRuns
  /\ runs' = runs + 1
  /\ args' \in ArgVectors
  /\ localContent' \in LocalContents
  /\ localSeekable' \in BOOLEAN
  /\ pc' = "main"
  /\ tok' = NoToken
  /\ r' = <<>>
  /\ backupsFolderId' = 0
  /\ ringFile' = NilFile
  /\ ringFileHash' = ""
  /\ obs' = FreshObs(remote)
  /\ prev' = IF pc = "done"
             THEN [outcome |-> "done", content |-> localContent,
                   fileCreates |-> obs.fileCreates, fileUpdates |-> obs.fileUpdates,
                   noops |-> obs.noops, fileId |-> obs.fileId,
                   savedOk |-> obs.cacheWritten /\ ~obs.cacheFail]
             ELSE [NoPrev EXCEPT !.outcome = "fatal",
                                 !.savedOk = obs.cacheWritten /\ ~obs.cacheFail]
  /\ tot' = [tot EXCEPT !.allDone = @ /\ pc = "done"]
  /\ UNCHANGED <<remote, cacheDir, cacheFile, init0>>

Next ==
  \/ MainStart
  \/ TokenCacheFile
  \/ TokenFromFile
  \/ GetTokenFromWeb
  \/ SaveToken
  \/ NewClient
  \/ ListFolders
  \/ ResolveFolder
  \/ OpenFile
  \/ CalcHash
  \/ Rewind
  \/ ListFiles
  \/ SyncFile
  \/ Finish
  \/ NextRun

Spec == Init /\ [][Next]_vars

\* ------------------------------------------------------------- properties
Exited == pc \in {"done", "fatal"}
WroteFile == obs.fileCreates + obs.fileUpdates > 0
NamedInUsedFolder == NumNamedIn(remote, Base(args[2]), backupsFolderId)

\* C1: when a run ends successfully through the create or the update branch,
\* the md5Checksum Drive holds for the file of the local file's name under the
\* backup folder is the MD5 of the whole local file.
C1_RemoteHashIsLocalHash ==
  (pc = "done" /\ WroteFile) =>
    /\ remote[obs.fileId].name = Base(args[2])
    /\ remote[obs.fileId].parent = backupsFolderId
    /\ remote[obs.fileId].md5 = Md5Hex(localContent)

\* C2: from a store with no file of that name under the backup folder, two
\* successful runs on an unchanged non-empty file make one create in total, in
\* the first run, and the second run writes nothing (the no-op branch).
C2_SecondRunIsNoop ==
  (runs = 2 /\ pc = "done" /\ prev.outcome = "done" /\ prev.content = localContent
     /\ init0.filesInFirst = 0) =>
    /\ prev.fileCreates = 1
    /\ tot.fileCreates = 1
    /\ obs.fileCreates = 0 /\ obs.fileUpdates = 0 /\ obs.noops = 1

\* C3: when the local file's bytes differ from those of the preceding
\* successful run, a successful run makes exactly one update, of the remote
\* file the preceding run synced, and neither a create nor a no-op.
C3_ChangedFileIsUpdated ==
  (pc = "done" /\ prev.outcome = "done" /\ prev.content # localContent) =>
    /\ obs.fileUpdates = 1 /\ obs.fileCreates = 0 /\ obs.noops = 0
    /\ obs.fileId = prev.fileId

C3_Witness ==
  /\ pc = "done" /\ prev.outcome = "done" /\ prev.content # localContent
  /\ obs.fileUpdates = 1 /\ remote[obs.fileId].md5 = Md5Hex(localContent)

\* C4 as stated: a run on a zero-length file never returns normally and has
\* issued no remote write (folder create, file create, file update).
C4_NoRemoteWriteOnEmptyFile ==
  localContent = <<>> =>
    /\ pc \notin {"listFiles", "syncFile", "end", "done"}
    /\ obs.folderCreates = 0 /\ obs.fileCreates = 0 /\ obs.fileUpdates = 0

\* C4 as amended: a run on a zero-length file never gets past the empty-file
\* check, so it issues no file create and no file update; it has issued a
\* folder create only when its folder query found no folder.
C4_NoFileWriteOnEmptyFile ==
  localContent = <<>> =>
    /\ pc \notin {"listFiles", "syncFile", "end", "done"}
    /\ obs.fileCreates = 0 /\ obs.fileUpdates = 0
    /\ (obs.folderCreates > 0 => obs.folderHits = 0)

C4_Witness ==
  localContent = <<>> /\ pc = "fatal" /\ obs.err = "empty" /\ obs.folderCreates = 1

\* C5: a run whose folder query found a folder issues no folder create and
\* leaves the number of backup folders as it was; over successful runs that
\* started from a store without the folder, one folder is created in all, by
\* the first run.
C5_FolderCreatedOnce ==
  /\ obs.folderHits >= 1 =>
       obs.folderCreates = 0 /\ NumFolders(remote) = obs.foldersAtStart
  /\ (init0.folders = 0 /\ tot.allDone /\ pc = "done") =>
       tot.folderCreates = 1 /\ (runs > 1 => obs.folderCreates = 0)

C5_Witness ==
  /\ runs > 1 /\ pc = "done" /\ tot.allDone /\ init0.folders = 0
  /\ obs.folderHits = 1 /\ NumFolders(remote) = 1

\* C6 as stated: at the end of every successful run at most one file of the
\* local file's name is under the backup folder the run used, whatever store
\* the first run started from.
C6_AtMostOneNamedFile ==
  pc = "done" => NamedInUsedFolder <= 1

\* C6 as amended: at the end of every successful run the number of files of
\* that name under the folder used is at most one when no backup folder held
\* more than one at the start, and otherwise no more than the largest number a
\* backup folder held at the start.
C6_NoNamedFileAdded ==
  pc = "done" =>
    NamedInUsedFolder <= (IF init0.maxNamed <= 1 THEN 1 ELSE init0.maxNamed)

C6_Witness ==
  /\ pc = "done" /\ runs > 1 /\ init0.maxNamed = 0 /\ tot.fileCreates = 1
  /\ prev.outcome = "done" /\ NamedInUsedFolder = 1

\* C7: a run that read the token cache without error neither prompts nor
\* writes the cache file; a run after one whose login was saved does not prompt.
C7_CachedTokenIsReused ==
  /\ obs.cacheReadOk =>
       ~obs.prompted /\ ~obs.cacheWritten /\ pc \notin {"getTokenFromWeb", "saveToken"}
  /\ prev.savedOk =>
       ~obs.prompted /\ pc \notin {"getTokenFromWeb", "saveToken"}

C7_Witness ==
  runs > 1 /\ prev.savedOk /\ obs.cacheReadOk /\ obs.clientReturned /\ tok = WebToken

\* C8: once the local file has been opened, every exit of the run, normal or
\* fatal, leaves the handle closed by the program.
C8_FileClosedOnExit ==
  (Exited /\ obs.opened) => ringFile.state = "closed"

\* C9: when the token cannot be cached (directory, file creation or write
\* fails) no authorized client is returned and no remote call is made.
C9_CacheFailureIsFatal ==
  obs.cacheFail =>
    /\ ~obs.clientReturned /\ obs.remoteCalls = 0
    /\ pc \in {"tokenFromFile", "getTokenFromWeb", "saveToken", "fatal"}

\* C10: once a step of the sync has reported an error the run is over: no
\* later step runs.
C10_FailFast ==
  obs.err # "" => pc = "fatal"

====
